---------------------------- MODULE Spec2Model ----------------------------
(***************************************************************************)
(* Model of pkg/jaeger/bridge.go: the conversion of Thrift-decoded Jaeger  *)
(* spans, tags, logs, references and processes to the v1 model, and the    *)
(* HTTP handler that forwards a converted batch to the gRPC collector.     *)
(*                                                                         *)
(* Representation of Go values:                                            *)
(*   - a 64-bit integer is a tuple of four 16-bit limbs, least significant *)
(*     first.  An int64 has a signed top limb (-2^15 .. 2^15-1), a uint64  *)
(*     an unsigned one (0 .. 2^16-1); the value is the sum of the limbs,   *)
(*     limb i weighing 2^(16(i-1)).  An int32/uint32 has two limbs.        *)
(*   - a slice is [nil, elems]: a nil slice is [nil |-> TRUE, elems |->    *)
(*     <<>>], an allocated one has nil = FALSE.                            *)
(*   - an optional Thrift slot (pointer to string, bool, ...) is [set, val].*)
(*   - a pointer to a struct is [nil, val]; a pointer whose identity       *)
(*     matters (the shared v1.Process of a batch) is an address into heap, *)
(*     0 being nil.                                                        *)
(*   - a time.Time is [unixNano |-> n]: the instant n nanoseconds after    *)
(*     the Unix epoch, n an int64, as built by time.Unix(0, n).            *)
(***************************************************************************)
EXTENDS Integers, Sequences, FiniteSets, TLC

VARIABLES
    fn,        \* unit application: the converter applied
    arg,       \* unit application: its argument
    returned,  \* unit application: whether the converter has returned
    ret,       \* unit application: its result
    pc,        \* handler: position in the HandleTraces closure
    req,       \* handler: the request and the outcomes of its external calls
    batch,     \* handler: the decoded Thrift batch
    heap,      \* handler: the allocated v1.Process values, by address
    proc,      \* handler: the address held by the local proc
    spans,     \* handler: the local spans slice
    posts,     \* handler: the batches passed to client.PostSpans, in order
    status,    \* handler: the status codes written with w.WriteHeader, in order
    postErr    \* handler: the err of client.PostSpans: "pending" until the
               \* call returns, then "nil" or "error"

uvars == <<fn, arg, returned, ret>>
hvars == <<pc, req, batch, heap, proc, spans, posts, status, postErr>>
vars ==
    <<fn, arg, returned, ret, pc, req, batch, heap, proc, spans, posts, status,
      postErr>>

-----------------------------------------------------------------------------
(* Bounds of the model *)

MaxRefs == 2
MaxTags == 2
MaxLogs == 2
MaxSpans == 2

-----------------------------------------------------------------------------
(* Fixed-width integers *)

Base == 2^16
Half == 2^15

\* The int64 / uint64 whose value is the small natural n (n < 2^15).
I64(n) == <<n, 0, 0, 0>>
Zero64 == <<0, 0, 0, 0>>
MinusOne64 == <<Base - 1, Base - 1, Base - 1, -1>>

\* uint64(x) for an int64 x: the value modulo 2^64.
ToUint64(x) == <<x[1], x[2], x[3], x[4] % Base>>

\* int64(u) for a uint64 u: the value modulo 2^64, taken in -2^63 .. 2^63-1.
ToInt64(u) == <<u[1], u[2], u[3], IF u[4] >= Half THEN u[4] - Base ELSE u[4]>>

\* uint32(x) for an int32 x.
ToUint32(x) == <<x[1], x[2] % Base>>

\* The unsigned limbs u times the small natural k, limb by limb from limb i
\* with the carry c; the carry out of the last limb is dropped.
RECURSIVE MulCarry(_, _, _, _)
MulCarry(u, k, i, c) ==
    IF i > Len(u) THEN <<>>
    ELSE LET p == u[i] * k + c
         IN  <<p % Base>> \o MulCarry(u, k, i + 1, p \div Base)

\* x * k on int64, as Go computes it: the product wraps modulo 2^64.
Mul64(x, k) == ToInt64(MulCarry(ToUint64(x), k, 1, 0))

\* The int64 x as 96-bit two's complement (six limbs): wide enough to hold
\* x * 1000 for every int64 x.
Wide(x) == ToUint64(x) \o (IF x[4] < 0 THEN <<Base - 1, Base - 1>> ELSE <<0, 0>>)

\* The mathematical product x * k of an int64 x and a small natural k, in
\* 96-bit two's complement.
ExactMul(x, k) == MulCarry(Wide(x), k, 1, 0)

-----------------------------------------------------------------------------
(* Go slices, optional slots and pointers *)

NilSlice == [nil |-> TRUE, elems |-> <<>>]
MkSlice(s) == [nil |-> FALSE, elems |-> s]
len(s) == Len(s.elems)

\* append(s, x): the result is allocated even when s is nil.
append(s, x) == [nil |-> FALSE, elems |-> Append(s.elems, x)]

Unset(zero) == [set |-> FALSE, val |-> zero]
Set(v) == [set |-> TRUE, val |-> v]

NilPtr == 0

\* The sequences over S of length at most n.
SeqUpTo(S, n) == UNION {[1..k -> S] : k \in 0..n}

\* The slices over S of length at most n: nil, allocated and empty, or filled.
SlicesUpTo(S, n) == {NilSlice} \cup {MkSlice(s) : s \in SeqUpTo(S, n)}

-----------------------------------------------------------------------------
(* Enumerations of jaeger-idl *)

\* jaegerthrift.TagType
TagType_STRING == 0
TagType_DOUBLE == 1
TagType_BOOL == 2
TagType_LONG == 3
TagType_BINARY == 4

\* v1.ValueType
ValueType_STRING == 0
ValueType_BOOL == 1
ValueType_INT64 == 2
ValueType_FLOAT64 == 3
ValueType_BINARY == 4

\* jaegerthrift.SpanRefType
SpanRefType_CHILD_OF == 0
SpanRefType_FOLLOWS_FROM == 1

\* v1.SpanRefType
v1_CHILD_OF == 0
v1_FOLLOWS_FROM == 1

\* time.Microsecond, in nanoseconds
Microsecond == 1000

\* net/http status codes
StatusAccepted == 202
StatusBadRequest == 400
StatusMethodNotAllowed == 405
StatusInternalServerError == 500

-----------------------------------------------------------------------------
(* The converters *)

\* The zero value of v1.KeyValue with the key set: v1.KeyValue{Key: t.Key}.
KeyValueZero(key) ==
    [Key |-> key, VType |-> ValueType_STRING, VStr |-> "", VBool |-> FALSE,
     VInt64 |-> Zero64, VFloat64 |-> "0.0", VBinary |-> NilSlice]

\* Mutant: the last arm is a case for STRING, not the default: a tag of an
\* undeclared type keeps the zero value.
convertTag_StringCase(t) ==
    LET kv == KeyValueZero(t.Key)
    IN  CASE t.VType = TagType_BOOL ->
               [kv EXCEPT !.VType = ValueType_BOOL,
                          !.VBool = IF t.VBool.set THEN t.VBool.val ELSE @]
          [] t.VType = TagType_LONG ->
               [kv EXCEPT !.VType = ValueType_INT64,
                          !.VInt64 = IF t.VLong.set THEN t.VLong.val ELSE @]
          [] t.VType = TagType_DOUBLE ->
               [kv EXCEPT !.VType = ValueType_FLOAT64,
                          !.VFloat64 = IF t.VDouble.set THEN t.VDouble.val ELSE @]
          [] t.VType = TagType_BINARY ->
               [kv EXCEPT !.VType = ValueType_BINARY,
                          !.VBinary = t.VBinary]
          [] t.VType = TagType_STRING ->
               [kv EXCEPT !.VType = ValueType_STRING,
                          !.VStr = IF t.VStr.set THEN t.VStr.val ELSE @]
          [] OTHER -> kv

convertTag(t) ==
    LET kv == KeyValueZero(t.Key)
    IN  CASE t.VType = TagType_BOOL ->
               [kv EXCEPT !.VType = ValueType_BOOL,
                          !.VBool = IF t.VBool.set THEN t.VBool.val ELSE @]
          [] t.VType = TagType_LONG ->
               [kv EXCEPT !.VType = ValueType_INT64,
                          !.VInt64 = IF t.VLong.set THEN t.VLong.val ELSE @]
          [] t.VType = TagType_DOUBLE ->
               [kv EXCEPT !.VType = ValueType_FLOAT64,
                          !.VFloat64 = IF t.VDouble.set THEN t.VDouble.val ELSE @]
          [] t.VType = TagType_BINARY ->
               [kv EXCEPT !.VType = ValueType_BINARY,
                          !.VBinary = t.VBinary]
          [] OTHER ->
               [kv EXCEPT !.VType = ValueType_STRING,
                          !.VStr = IF t.VStr.set THEN t.VStr.val ELSE @]

\* Mutant: the test is for a nil list, not for an empty one.
convertTags_NilTest(tags) ==
    IF tags.nil THEN NilSlice
    ELSE MkSlice([i \in 1..len(tags) |-> convertTag(tags.elems[i])])

convertTags(tags) ==
    IF len(tags) = 0 THEN NilSlice
    ELSE MkSlice([i \in 1..len(tags) |-> convertTag(tags.elems[i])])

\* time.Unix(0, nsec)
TimeUnixNano(nsec) == [unixNano |-> nsec]

convertLogs(logs) ==
    IF len(logs) = 0 THEN NilSlice
    ELSE MkSlice([i \in 1..len(logs) |->
             [Timestamp |-> TimeUnixNano(Mul64(logs.elems[i].Timestamp, Microsecond)),
              Fields |-> convertTags(logs.elems[i].Fields)]])

\* Mutant: the two halves of the trace id change places.
convertSpanRef_SwappedHalves(r) ==
    LET refType == IF r.RefType = SpanRefType_FOLLOWS_FROM
                   THEN v1_FOLLOWS_FROM ELSE v1_CHILD_OF
    IN  [TraceID |-> [High |-> ToUint64(r.TraceIdLow), Low |-> ToUint64(r.TraceIdHigh)],
         SpanID |-> ToUint64(r.SpanId),
         RefType |-> refType]

\* Mutant: the test is on CHILD_OF, every other type becoming FOLLOWS_FROM.
convertSpanRef_TestsChildOf(r) ==
    LET refType == IF r.RefType = SpanRefType_CHILD_OF
                   THEN v1_CHILD_OF ELSE v1_FOLLOWS_FROM
    IN  [TraceID |-> [High |-> ToUint64(r.TraceIdHigh), Low |-> ToUint64(r.TraceIdLow)],
         SpanID |-> ToUint64(r.SpanId),
         RefType |-> refType]

convertSpanRef(r) ==
    LET refType == IF r.RefType = SpanRefType_FOLLOWS_FROM
                   THEN v1_FOLLOWS_FROM ELSE v1_CHILD_OF
    IN  [TraceID |-> [High |-> ToUint64(r.TraceIdHigh), Low |-> ToUint64(r.TraceIdLow)],
         SpanID |-> ToUint64(r.SpanId),
         RefType |-> refType]

\* The loop over s.References: every explicit reference converted, in order,
\* appended to the nil slice refs.
RECURSIVE explicitRefs(_, _, _)
explicitRefs(refs, in, i) ==
    IF i > len(in) THEN refs
    ELSE explicitRefs(append(refs, convertSpanRef(in.elems[i])), in, i + 1)

\* Mutant: the scan also compares the trace id with the span's own.
alreadyPresent_SameTrace(refs, s) ==
    \E i \in 1..len(refs) :
        /\ refs.elems[i].RefType = v1_CHILD_OF
        /\ refs.elems[i].SpanID = ToUint64(s.ParentSpanId)
        /\ refs.elems[i].TraceID =
              [High |-> ToUint64(s.TraceIdHigh), Low |-> ToUint64(s.TraceIdLow)]

\* The scan of refs for a ChildOf reference to the span's parent.
alreadyPresent(refs, s) ==
    \E i \in 1..len(refs) :
        /\ refs.elems[i].RefType = v1_CHILD_OF
        /\ refs.elems[i].SpanID = ToUint64(s.ParentSpanId)

\* Mutant: the implicit parent reference carries no trace id.
implicitRef_NoTrace(traceID, s) ==
    [TraceID |-> [High |-> Zero64, Low |-> Zero64],
     SpanID |-> ToUint64(s.ParentSpanId), RefType |-> v1_CHILD_OF]

\* The implicit parent reference.
implicitRef(traceID, s) ==
    [TraceID |-> traceID, SpanID |-> ToUint64(s.ParentSpanId), RefType |-> v1_CHILD_OF]

\* Mutant: the parent is added without testing ParentSpanId against zero.
buildRefs_NoZeroTest(traceID, s) ==
    LET refs == explicitRefs(NilSlice, s.References, 1)
    IN  IF ~alreadyPresent(refs, s)
        THEN append(refs, implicitRef(traceID, s))
        ELSE refs

\* The references of the converted span.
buildRefs(traceID, s) ==
    LET refs == explicitRefs(NilSlice, s.References, 1)
    IN  IF s.ParentSpanId # Zero64 /\ ~alreadyPresent(refs, s)
        THEN append(refs, implicitRef(traceID, s))
        ELSE refs

\* The pointer convertSpan returns; the Process field is left nil.
convertSpan(s) ==
    LET traceID == [High |-> ToUint64(s.TraceIdHigh), Low |-> ToUint64(s.TraceIdLow)]
    IN  [nil |-> FALSE,
         val |-> [TraceID |-> traceID,
                  SpanID |-> ToUint64(s.SpanId),
                  OperationName |-> s.OperationName,
                  References |-> buildRefs(traceID, s),
                  Flags |-> ToUint32(s.Flags),
                  StartTime |-> TimeUnixNano(Mul64(s.StartTime, Microsecond)),
                  Duration |-> Mul64(s.Duration, Microsecond),
                  Tags |-> convertTags(s.Tags),
                  Logs |-> convertLogs(s.Logs),
                  Process |-> NilPtr]]

\* Mutant: a nil process converts to nil.
convertProcess_NilForNil(p) ==
    IF p.nil
    THEN [nil |-> TRUE]
    ELSE [nil |-> FALSE, val |-> [ServiceName |-> p.val.ServiceName,
                                  Tags |-> convertTags(p.val.Tags)]]

\* The pointer convertProcess returns, for the pointer p.
convertProcess(p) ==
    IF p.nil
    THEN [nil |-> FALSE, val |-> [ServiceName |-> "", Tags |-> NilSlice]]
    ELSE [nil |-> FALSE, val |-> [ServiceName |-> p.val.ServiceName,
                                  Tags |-> convertTags(p.val.Tags)]]

-----------------------------------------------------------------------------
(* Applying one converter to one argument *)

\* The handler's variables while no request is being handled.
HandlerOff ==
    /\ pc = "off"
    /\ req = [method |-> "", readErr |-> FALSE, dataLen |-> 0, writeErr |-> FALSE,
              decodeErr |-> FALSE]
    /\ batch = [Process |-> [nil |-> TRUE], Spans |-> NilSlice]
    /\ heap = <<>>
    /\ proc = NilPtr
    /\ spans = NilSlice
    /\ posts = <<>>
    /\ status = <<>>
    /\ postErr = "pending"

\* The call has not returned: ret holds no result yet.
Pending ==
    /\ returned = FALSE
    /\ ret = NilSlice

CallConvertTag ==
    /\ fn = "convertTag" /\ ~returned
    /\ ret' = convertTag(arg)
    /\ returned' = TRUE
    /\ UNCHANGED <<fn, arg, pc, req, batch, heap, proc, spans, posts, status, postErr>>

CallConvertTags ==
    /\ fn = "convertTags" /\ ~returned
    /\ ret' = convertTags(arg)
    /\ returned' = TRUE
    /\ UNCHANGED <<fn, arg, pc, req, batch, heap, proc, spans, posts, status, postErr>>

CallConvertLogs ==
    /\ fn = "convertLogs" /\ ~returned
    /\ ret' = convertLogs(arg)
    /\ returned' = TRUE
    /\ UNCHANGED <<fn, arg, pc, req, batch, heap, proc, spans, posts, status, postErr>>

CallConvertSpanRef ==
    /\ fn = "convertSpanRef" /\ ~returned
    /\ ret' = convertSpanRef(arg)
    /\ returned' = TRUE
    /\ UNCHANGED <<fn, arg, pc, req, batch, heap, proc, spans, posts, status, postErr>>

CallConvertSpan ==
    /\ fn = "convertSpan" /\ ~returned
    /\ ret' = convertSpan(arg)
    /\ returned' = TRUE
    /\ UNCHANGED <<fn, arg, pc, req, batch, heap, proc, spans, posts, status, postErr>>

CallConvertProcess ==
    /\ fn = "convertProcess" /\ ~returned
    /\ ret' = convertProcess(arg)
    /\ returned' = TRUE
    /\ UNCHANGED <<fn, arg, pc, req, batch, heap, proc, spans, posts, status, postErr>>

-----------------------------------------------------------------------------
(* Arguments: references and spans that carry references *)

MinInt64 == <<0, 0, 0, -Half>>

\* The span of TestConvertSpan_BasicFields, without its identifiers.
BaseSpan ==
    [TraceIdHigh |-> Zero64, TraceIdLow |-> I64(1), SpanId |-> I64(3),
     ParentSpanId |-> Zero64, OperationName |-> "op", References |-> NilSlice,
     Flags |-> <<1, 0>>, StartTime |-> Zero64, Duration |-> I64(100),
     Tags |-> NilSlice, Logs |-> NilSlice]

\* Discriminators of a reference: the two declared ones and undeclared ones.
RefTypes == {SpanRefType_CHILD_OF, SpanRefType_FOLLOWS_FROM, 2, 7, -1}

IdVals == {Zero64, I64(1), MinusOne64, MinInt64}

RefArgs ==
    [RefType : RefTypes, TraceIdHigh : IdVals, TraceIdLow : IdVals, SpanId : IdVals]

ParentIds == {I64(2), MinusOne64}
TraceLows == {I64(1), I64(16)}

SpanRefs ==
    [RefType : {SpanRefType_CHILD_OF, SpanRefType_FOLLOWS_FROM, 2},
     TraceIdHigh : {Zero64}, TraceIdLow : TraceLows, SpanId : ParentIds]

RefSpanArgs ==
    {[BaseSpan EXCEPT !.TraceIdLow = tl, !.ParentSpanId = p, !.References = rs] :
        tl \in TraceLows, p \in {Zero64} \cup ParentIds,
        rs \in SlicesUpTo(SpanRefs, MaxRefs)}

InitRefs ==
    /\ \/ fn = "convertSpanRef" /\ arg \in RefArgs
       \/ fn = "convertSpan" /\ arg \in RefSpanArgs
    /\ Pending
    /\ HandlerOff

NextRefs == CallConvertSpanRef \/ CallConvertSpan

SpecRefs == InitRefs /\ [][NextRefs]_vars

\* The explicit references of the span s, each converted, in input order.
ConvertedExplicit(s) ==
    [i \in 1..len(s.References) |-> convertSpanRef(s.References.elems[i])]

\* The span s has an explicit reference of legacy type CHILD_OF to its parent.
HasExplicitChildOf(s) ==
    \E i \in 1..len(s.References) :
        /\ s.References.elems[i].RefType = SpanRefType_CHILD_OF
        /\ s.References.elems[i].SpanId = s.ParentSpanId

SpanReturned == fn = "convertSpan" /\ returned

\* C1: a span with a non-zero ParentSpanId and an explicit CHILD_OF reference
\* to that span id converts to exactly as many references as it has explicit
\* ones, whatever the trace id of the matching reference.
C1_NoDuplicateParent ==
    (SpanReturned /\ arg.ParentSpanId # Zero64 /\ HasExplicitChildOf(arg))
        => len(ret.val.References) = len(arg.References)

\* The matching explicit reference belongs to another trace than the span.
C1_Witness ==
    /\ SpanReturned /\ arg.ParentSpanId # Zero64
    /\ \E i \in 1..len(arg.References) :
          /\ arg.References.elems[i].RefType = SpanRefType_CHILD_OF
          /\ arg.References.elems[i].SpanId = arg.ParentSpanId
          /\ arg.References.elems[i].TraceIdLow # arg.TraceIdLow
    /\ len(ret.val.References) = len(arg.References)
    /\ len(arg.References) = 2

\* The reference list of a span whose parent was added: the explicit ones
\* converted, then one CHILD_OF reference to the parent in the span's trace.
ExplicitThenParent(s) ==
    ConvertedExplicit(s) \o
        <<[TraceID |-> [High |-> ToUint64(s.TraceIdHigh), Low |-> ToUint64(s.TraceIdLow)],
           SpanID |-> ToUint64(s.ParentSpanId),
           RefType |-> v1_CHILD_OF]>>

\* C2 as stated: with a non-zero ParentSpanId and no explicit reference of
\* type CHILD_OF to that span id, the result is the converted explicit
\* references followed by one CHILD_OF reference to the parent.
C2_AsStated ==
    (SpanReturned /\ arg.ParentSpanId # Zero64 /\ ~HasExplicitChildOf(arg))
        => ret.val.References.elems = ExplicitThenParent(arg)

\* The span s has an explicit reference to its parent whose type is anything
\* but FOLLOWS_FROM.
HasExplicitNonFollowsFrom(s) ==
    \E i \in 1..len(s.References) :
        /\ s.References.elems[i].RefType # SpanRefType_FOLLOWS_FROM
        /\ s.References.elems[i].SpanId = s.ParentSpanId

\* C2 amended: with a non-zero ParentSpanId and no explicit reference to that
\* span id of a type other than FOLLOWS_FROM, the result is the converted
\* explicit references in order followed by one CHILD_OF reference to the
\* parent in the span's own trace.
C2_ParentAppendedLast ==
    (SpanReturned /\ arg.ParentSpanId # Zero64 /\ ~HasExplicitNonFollowsFrom(arg))
        => /\ ~ret.val.References.nil
           /\ ret.val.References.elems = ExplicitThenParent(arg)

\* An explicit FOLLOWS_FROM reference to the parent does not stand for it.
C2_Witness ==
    /\ SpanReturned /\ arg.ParentSpanId # Zero64
    /\ len(arg.References) = 2
    /\ arg.References.elems[1].RefType = SpanRefType_FOLLOWS_FROM
    /\ arg.References.elems[1].SpanId = arg.ParentSpanId
    /\ arg.References.elems[2].TraceIdLow # arg.TraceIdLow
    /\ len(ret.val.References) = 3
    /\ ret.val.References.elems[3].TraceID.Low = ToUint64(arg.TraceIdLow)

\* C3: a span with a zero ParentSpanId converts to exactly its explicit
\* references, each converted, in order; with none the list is empty.
C3_ZeroParentNoAppend ==
    (SpanReturned /\ arg.ParentSpanId = Zero64)
        => /\ ret.val.References.elems = ConvertedExplicit(arg)
           /\ len(arg.References) = 0 => ret.val.References = NilSlice

\* Two different explicit references and no parent: both kept, none added.
C3_Witness ==
    /\ SpanReturned /\ arg.ParentSpanId = Zero64
    /\ len(arg.References) = 2
    /\ arg.References.elems[1] # arg.References.elems[2]
    /\ len(ret.val.References) = 2

RefReturned == fn = "convertSpanRef" /\ returned

\* The 64 bits of an int64 and of a uint64, as unsigned limbs.
BitsOfInt64(x) == <<x[1], x[2], x[3], IF x[4] < 0 THEN x[4] + Base ELSE x[4]>>
BitsOfUint64(u) == u

\* C4: a reference converts to FOLLOWS_FROM exactly when its type is
\* FOLLOWS_FROM and to CHILD_OF otherwise; the span id and both halves of the
\* trace id keep their 64 bits, as unsigned integers.
C4_RefTypeAndIds ==
    RefReturned =>
        /\ ret.RefType = v1_FOLLOWS_FROM <=> arg.RefType = SpanRefType_FOLLOWS_FROM
        /\ ret.RefType # v1_FOLLOWS_FROM => ret.RefType = v1_CHILD_OF
        /\ BitsOfUint64(ret.SpanID) = BitsOfInt64(arg.SpanId)
        /\ BitsOfUint64(ret.TraceID.High) = BitsOfInt64(arg.TraceIdHigh)
        /\ BitsOfUint64(ret.TraceID.Low) = BitsOfInt64(arg.TraceIdLow)
        /\ \A u \in {ret.SpanID, ret.TraceID.High, ret.TraceID.Low} :
              \A i \in 1..4 : u[i] \in 0..(Base - 1)

\* A FOLLOWS_FROM reference with negative identifiers.
C4_Witness ==
    /\ RefReturned
    /\ arg.RefType = SpanRefType_FOLLOWS_FROM
    /\ arg.SpanId = MinusOne64 /\ arg.TraceIdHigh = MinInt64
    /\ ret.RefType = v1_FOLLOWS_FROM
    /\ ret.SpanID = <<Base - 1, Base - 1, Base - 1, Base - 1>>

UndeclaredRefType(r) ==
    r.RefType \notin {SpanRefType_CHILD_OF, SpanRefType_FOLLOWS_FROM}

\* C5 as stated: a reference of an undeclared type converts to FOLLOWS_FROM.
C5_AsStated ==
    (RefReturned /\ UndeclaredRefType(arg)) => ret.RefType = v1_FOLLOWS_FROM

\* C5 amended: a reference of an undeclared type converts to CHILD_OF.
C5_UndeclaredIsChildOf ==
    (RefReturned /\ UndeclaredRefType(arg)) => ret.RefType = v1_CHILD_OF

\* A reference of the undeclared type 7.
C5_Witness ==
    RefReturned /\ arg.RefType = 7 /\ ret.RefType = v1_CHILD_OF

-----------------------------------------------------------------------------
(* Arguments: tags, logs, processes and spans that carry tags and logs *)

\* Discriminators of a tag: the five declared ones and undeclared ones.
TagTypes ==
    {TagType_STRING, TagType_DOUBLE, TagType_BOOL, TagType_LONG, TagType_BINARY,
     5, -1}

\* Every combination of set and unset payload slots, under every discriminator.
TagArgs ==
    [Key : {"k", "http.method"},
     VType : TagTypes,
     VStr : {Unset(""), Set("v")},
     VBool : {Unset(FALSE), Set(TRUE)},
     VLong : {Unset(Zero64), Set(I64(42))},
     VDouble : {Unset("0.0"), Set("3.14")},
     VBinary : {NilSlice, MkSlice(<<1, 2, 3>>)}]

\* The tag of TestConvertSpan_TagsAndLogs.
StringTag ==
    [Key |-> "http.method", VType |-> TagType_STRING, VStr |-> Set("GET"),
     VBool |-> Unset(FALSE), VLong |-> Unset(Zero64), VDouble |-> Unset("0.0"),
     VBinary |-> NilSlice]

\* A LONG tag whose string slot is set as well.
LongTag ==
    [Key |-> "k", VType |-> TagType_LONG, VStr |-> Set("stale"),
     VBool |-> Unset(FALSE), VLong |-> Set(I64(42)), VDouble |-> Unset("0.0"),
     VBinary |-> NilSlice]

TagsArgs == SlicesUpTo({StringTag, LongTag}, MaxTags)

LogEntries == [Timestamp : {I64(1000)}, Fields : TagsArgs]

LogsArgs == SlicesUpTo(LogEntries, MaxLogs)

ProcessArgs ==
    {[nil |-> TRUE]} \cup
    {[nil |-> FALSE, val |-> [ServiceName |-> n, Tags |-> ts]] :
        n \in {"", "my-service"}, ts \in TagsArgs}

TagSpanArgs ==
    {[BaseSpan EXCEPT !.Tags = ts, !.Logs = ls] : ts \in TagsArgs, ls \in LogsArgs}

InitTags ==
    /\ \/ fn = "convertTag" /\ arg \in TagArgs
       \/ fn = "convertTags" /\ arg \in TagsArgs
       \/ fn = "convertLogs" /\ arg \in LogsArgs
       \/ fn = "convertProcess" /\ arg \in ProcessArgs
       \/ fn = "convertSpan" /\ arg \in TagSpanArgs
    /\ Pending
    /\ HandlerOff

NextTags ==
    \/ CallConvertTag
    \/ CallConvertTags
    \/ CallConvertLogs
    \/ CallConvertProcess
    \/ CallConvertSpan

SpecTags == InitTags /\ [][NextTags]_vars

TagReturned == fn = "convertTag" /\ returned

DeclaredNonString ==
    {TagType_DOUBLE, TagType_BOOL, TagType_LONG, TagType_BINARY}

\* C6: the key is kept; the type follows the table, STRING standing for
\* every undeclared discriminator; the payload of that type is the legacy
\* slot's value, or the zero value when the slot is unset; every other
\* payload is its zero value, whatever the legacy slots hold.
C6_TagTable ==
    TagReturned =>
        /\ ret.Key = arg.Key
        /\ arg.VType = TagType_BOOL => ret.VType = ValueType_BOOL
        /\ arg.VType = TagType_LONG => ret.VType = ValueType_INT64
        /\ arg.VType = TagType_DOUBLE => ret.VType = ValueType_FLOAT64
        /\ arg.VType = TagType_BINARY => ret.VType = ValueType_BINARY
        /\ arg.VType \notin DeclaredNonString => ret.VType = ValueType_STRING
        /\ ret.VBool = IF arg.VType = TagType_BOOL /\ arg.VBool.set
                       THEN arg.VBool.val ELSE FALSE
        /\ ret.VInt64 = IF arg.VType = TagType_LONG /\ arg.VLong.set
                        THEN arg.VLong.val ELSE Zero64
        /\ ret.VFloat64 = IF arg.VType = TagType_DOUBLE /\ arg.VDouble.set
                          THEN arg.VDouble.val ELSE "0.0"
        /\ ret.VBinary = IF arg.VType = TagType_BINARY THEN arg.VBinary ELSE NilSlice
        /\ ret.VStr = IF arg.VType \notin DeclaredNonString /\ arg.VStr.set
                      THEN arg.VStr.val ELSE ""

\* An undeclared discriminator with every slot set: only the string is kept.
C6_Witness ==
    /\ TagReturned
    /\ arg.VType = 5
    /\ arg.VStr.set /\ arg.VBool.set /\ arg.VLong.set /\ arg.VDouble.set
    /\ ~arg.VBinary.nil
    /\ ret.VType = ValueType_STRING /\ ret.VStr = "v"
    /\ ret.VBool = FALSE /\ ret.VInt64 = Zero64 /\ ret.VBinary = NilSlice

\* The tag list out is the conversion of the tag list in: nil when in is nil
\* or empty, else as long as in, entry by entry.
TagsConverted(in, out) ==
    IF len(in) = 0 THEN out = NilSlice
    ELSE /\ ~out.nil
         /\ len(out) = len(in)
         /\ \A i \in 1..len(in) : out.elems[i] = convertTag(in.elems[i])

\* The same of a log list: each entry keeps its place, its fields are the
\* conversion of its fields and its timestamp is the microseconds times 1000.
LogsConverted(in, out) ==
    IF len(in) = 0 THEN out = NilSlice
    ELSE /\ ~out.nil
         /\ len(out) = len(in)
         /\ \A i \in 1..len(in) :
               /\ TagsConverted(in.elems[i].Fields, out.elems[i].Fields)
               /\ Wide(out.elems[i].Timestamp.unixNano)
                      = ExactMul(in.elems[i].Timestamp, Microsecond)

\* C8: convertTags and convertLogs return nil for a nil and for an empty
\* list, and for n entries return n entries, entry i converted from entry i;
\* so for span tags, span logs, the fields of a log and process tags.
C8_ListsConverted ==
    /\ (fn = "convertTags" /\ returned) => TagsConverted(arg, ret)
    /\ (fn = "convertLogs" /\ returned) => LogsConverted(arg, ret)
    /\ SpanReturned =>
          /\ TagsConverted(arg.Tags, ret.val.Tags)
          /\ LogsConverted(arg.Logs, ret.val.Logs)
    /\ (fn = "convertProcess" /\ returned /\ ~arg.nil) =>
          TagsConverted(arg.val.Tags, ret.val.Tags)

\* A span with an allocated empty tag list, and two logs of which the first
\* has two different fields and the second an allocated empty field list.
C8_Witness ==
    /\ SpanReturned
    /\ arg.Tags = MkSlice(<<>>) /\ ret.val.Tags = NilSlice
    /\ len(arg.Logs) = 2 /\ len(ret.val.Logs) = 2
    /\ arg.Logs.elems[1].Fields = MkSlice(<<StringTag, LongTag>>)
    /\ ret.val.Logs.elems[1].Fields.elems[2].VType = ValueType_INT64
    /\ arg.Logs.elems[2].Fields = MkSlice(<<>>)
    /\ ret.val.Logs.elems[2].Fields = NilSlice

\* C9: convertProcess never returns nil: for a nil process the result has an
\* empty service name and a nil tag list, otherwise the service name and the
\* converted tags.  convertSpan leaves the Process field nil.
C9_ProcessPresent ==
    /\ (fn = "convertProcess" /\ returned) =>
          /\ ~ret.nil
          /\ arg.nil => (ret.val.ServiceName = "" /\ ret.val.Tags = NilSlice)
          /\ ~arg.nil =>
                /\ ret.val.ServiceName = arg.val.ServiceName
                /\ TagsConverted(arg.val.Tags, ret.val.Tags)
    /\ SpanReturned => (~ret.nil /\ ret.val.Process = NilPtr)

\* The process converted from nil.
C9_Witness ==
    /\ fn = "convertProcess" /\ returned
    /\ arg.nil
    /\ ~ret.nil /\ ret.val.ServiceName = "" /\ ret.val.Tags = NilSlice

-----------------------------------------------------------------------------
(* Arguments: microsecond values *)

\* The largest and the smallest int64.
MaxInt64 == <<Base - 1, Base - 1, Base - 1, Half - 1>>

\* 9223372036854775 and its successor: 1000 times the first is the largest
\* multiple of 1000 an int64 holds.
MaxExactMicros == <<21495, 42467, 50331, 32>>
MinOverflowMicros == <<21496, 42467, 50331, 32>>

\* -9223372036854775 and its predecessor.
MinExactMicros == <<44041, 23068, 15204, -33>>
MaxUnderflowMicros == <<44040, 23068, 15204, -33>>

\* 1000000 (one second) and 1700000000000000 (14 November 2023).
SecondMicros == <<16960, 15, 0, 0>>
Year2023Micros == <<16384, 6174, 2596, 6>>

MicrosVals ==
    {Zero64, I64(1), I64(100), I64(1000), SecondMicros, Year2023Micros, MinusOne64,
     MaxExactMicros, MinOverflowMicros, MinExactMicros, MaxUnderflowMicros,
     MaxInt64, MinInt64}

TimeSpanArgs ==
    {[BaseSpan EXCEPT !.StartTime = st, !.Duration = d] :
        st \in MicrosVals, d \in MicrosVals}

TimeLogsArgs ==
    {MkSlice(<<[Timestamp |-> t, Fields |-> NilSlice]>>) : t \in MicrosVals}

InitTime ==
    /\ \/ fn = "convertSpan" /\ arg \in TimeSpanArgs
       \/ fn = "convertLogs" /\ arg \in TimeLogsArgs
    /\ Pending
    /\ HandlerOff

NextTime == CallConvertSpan \/ CallConvertLogs

SpecTime == InitTime /\ [][NextTime]_vars

\* C7 as stated: a start time and a log timestamp of v microseconds become
\* the instant v * 1000 nanoseconds after the epoch, and a duration of v
\* microseconds becomes v * 1000 nanoseconds, the products being exact.
C7_ExactNanos ==
    /\ SpanReturned =>
          /\ Wide(ret.val.StartTime.unixNano) = ExactMul(arg.StartTime, Microsecond)
          /\ Wide(ret.val.Duration) = ExactMul(arg.Duration, Microsecond)
    /\ (fn = "convertLogs" /\ returned) =>
          \A i \in 1..len(arg) :
              Wide(ret.elems[i].Timestamp.unixNano)
                  = ExactMul(arg.elems[i].Timestamp, Microsecond)

-----------------------------------------------------------------------------
(* HandleTraces: one request through the handler *)

\* No converter is being applied on its own.
UnitOff ==
    /\ fn = "none"
    /\ arg = NilSlice
    /\ Pending

HandlerProcesses ==
    {[nil |-> TRUE],
     [nil |-> FALSE, val |-> [ServiceName |-> "svc", Tags |-> NilSlice]],
     [nil |-> FALSE, val |-> [ServiceName |-> "svc", Tags |-> MkSlice(<<StringTag>>)]]}

HandlerSpans ==
    {[BaseSpan EXCEPT !.SpanId = I64(2), !.ParentSpanId = I64(1)],
     [BaseSpan EXCEPT !.Tags = MkSlice(<<StringTag>>)]}

\* What batch.Read yields when it succeeds.
Batches == [Process : HandlerProcesses, Spans : SlicesUpTo(HandlerSpans, MaxSpans)]

\* A request, with the outcome of each external call made for it: io.ReadAll
\* (readErr, dataLen), transport.Write (writeErr) and batch.Read (decodeErr,
\* decoded).
Requests ==
    [method : {"POST", "GET"}, readErr : BOOLEAN, dataLen : {0, 1},
     writeErr : BOOLEAN, decodeErr : BOOLEAN, decoded : Batches]

\* jaegerthrift.NewBatch()
NewBatch == [Process |-> [nil |-> TRUE], Spans |-> NilSlice]

Init ==
    /\ UnitOff
    /\ pc = "method"
    /\ req \in Requests
    /\ batch = NewBatch
    /\ heap = <<>>
    /\ proc = NilPtr
    /\ spans = NilSlice
    /\ posts = <<>>
    /\ status = <<>>
    /\ postErr = "pending"

\* w.WriteHeader(code); return
Reply(code) ==
    /\ status' = Append(status, code)
    /\ pc' = "done"

CheckMethod ==
    /\ pc = "method"
    /\ IF req.method # "POST"
       THEN Reply(StatusMethodNotAllowed)
       ELSE pc' = "read" /\ UNCHANGED status
    /\ UNCHANGED <<fn, arg, returned, ret, req, batch, heap, proc, spans, posts, postErr>>

\* io.ReadAll, then r.Body.Close, whose error is only logged.
ReadBody ==
    /\ pc = "read"
    /\ IF req.readErr
       THEN Reply(StatusBadRequest)
       ELSE pc' = "empty" /\ UNCHANGED status
    /\ UNCHANGED <<fn, arg, returned, ret, req, batch, heap, proc, spans, posts, postErr>>

CheckEmpty ==
    /\ pc = "empty"
    /\ IF req.dataLen = 0
       THEN Reply(StatusBadRequest)
       ELSE pc' = "write" /\ UNCHANGED status
    /\ UNCHANGED <<fn, arg, returned, ret, req, batch, heap, proc, spans, posts, postErr>>

WriteBuffer ==
    /\ pc = "write"
    /\ IF req.writeErr
       THEN Reply(StatusBadRequest)
       ELSE pc' = "decode" /\ UNCHANGED status
    /\ UNCHANGED <<fn, arg, returned, ret, req, batch, heap, proc, spans, posts, postErr>>

\* Mutant: the return after the decode error is missing.
Decode_NoReturn ==
    /\ pc = "decode"
    /\ IF req.decodeErr
       THEN status' = Append(status, StatusBadRequest) /\ pc' = "convert"
                /\ UNCHANGED batch
       ELSE batch' = req.decoded /\ pc' = "convert" /\ UNCHANGED status
    /\ UNCHANGED <<fn, arg, returned, ret, req, heap, proc, spans, posts, postErr>>

Decode ==
    /\ pc = "decode"
    /\ IF req.decodeErr
       THEN Reply(StatusBadRequest) /\ UNCHANGED batch
       ELSE batch' = req.decoded /\ pc' = "convert" /\ UNCHANGED status
    /\ UNCHANGED <<fn, arg, returned, ret, req, heap, proc, spans, posts, postErr>>

\* The address of the value a pointer p points to, once it is on the heap h:
\* nil stays nil, anything else is the last value allocated.
AddressOf(p, h) == IF p.nil THEN NilPtr ELSE Len(h)

\* The heap h after the value of the pointer p has been allocated on it.
Allocate(h, p) == IF p.nil THEN h ELSE Append(h, p.val)

\* proc := convertProcess(batch.Process), then the loop over batch.Spans:
\* each span converted, its Process set to proc, appended to spans.
Convert ==
    /\ pc = "convert"
    /\ LET p == convertProcess(batch.Process)
       IN  /\ heap' = Allocate(heap, p)
           /\ proc' = AddressOf(p, heap')
    /\ spans' = MkSlice([i \in 1..len(batch.Spans) |->
                   [convertSpan(batch.Spans.elems[i]).val EXCEPT !.Process = proc']])
    /\ pc' = "post"
    /\ UNCHANGED <<fn, arg, returned, ret, req, batch, posts, status, postErr>>

\* client.PostSpans is called with the batch of spans and proc: the batch
\* is handed to the collector and the handler waits for the answer, with no
\* deadline (context.Background()).
CallPostSpans ==
    /\ pc = "post"
    /\ posts' = Append(posts, [Spans |-> spans, Process |-> proc])
    /\ pc' = "waiting"
    /\ UNCHANGED <<fn, arg, returned, ret, req, batch, heap, proc, spans, status, postErr>>

\* client.PostSpans returns, with an error or without, and the handler
\* replies.  Nothing makes the call return.
PostSpansReturns ==
    /\ pc = "waiting"
    /\ \E e \in {"nil", "error"} :
          /\ postErr' = e
          /\ IF e # "nil"
             THEN Reply(StatusInternalServerError)
             ELSE Reply(StatusAccepted)
    /\ UNCHANGED <<fn, arg, returned, ret, req, batch, heap, proc, spans, posts>>

Next ==
    \/ CheckMethod
    \/ ReadBody
    \/ CheckEmpty
    \/ WriteBuffer
    \/ Decode
    \/ Convert
    \/ CallPostSpans
    \/ PostSpansReturns

Spec == Init /\ [][Next]_vars

\* The request fails one of the checks made of a POST request.
FailsCheck(r) == r.readErr \/ r.dataLen = 0 \/ r.writeErr \/ r.decodeErr

BeforeCall == {"method", "read", "empty", "write", "decode", "convert", "post"}

\* The handler is where only a request that passed the checks so far can be;
\* nothing is posted before the call, and nothing is answered before the
\* handler is done.
ChecksInOrder ==
    /\ pc \in {"read", "empty", "write", "decode", "convert", "post", "waiting"}
          => req.method = "POST"
    /\ pc \in {"empty", "write", "decode", "convert", "post", "waiting"} => ~req.readErr
    /\ pc \in {"write", "decode", "convert", "post", "waiting"} => req.dataLen # 0
    /\ pc \in {"decode", "convert", "post", "waiting"} => ~req.writeErr
    /\ pc \in {"convert", "post", "waiting"} => ~req.decodeErr
    /\ pc \in BeforeCall => posts = <<>>
    /\ pc # "done" => (status = <<>> /\ postErr = "pending")

\* Every span of the posted batch b holds the batch's process, which is
\* an allocated descriptor.
SharedProcess(b) ==
    /\ b.Process # NilPtr
    /\ b.Process \in 1..Len(heap)
    /\ \A i \in 1..len(b.Spans) : b.Spans.elems[i].Process = b.Process

\* C10: PostSpans is called at most once and only for a POST request whose
\* body was read, is not empty and was decoded; a request failing a check is
\* answered 405 (not POST) or 400 with no call; the answer is 202 exactly
\* when PostSpans was called and returned no error, and 500 when it returned
\* one (while the call has not returned there is no answer); the batch
\* posted and each of its spans hold the same process, never nil.
C10_Handler ==
    /\ Len(posts) <= 1
    /\ ChecksInOrder
    /\ Len(posts) = 1 => (req.method = "POST" /\ ~FailsCheck(req))
    /\ postErr # "pending" => Len(posts) = 1
    /\ Len(status) <= 1
    /\ pc = "done" =>
          /\ Len(status) = 1
          /\ req.method # "POST" =>
                (status = <<StatusMethodNotAllowed>> /\ posts = <<>>)
          /\ (req.method = "POST" /\ FailsCheck(req)) =>
                (status = <<StatusBadRequest>> /\ posts = <<>>)
    /\ status = <<StatusAccepted>> <=> (Len(posts) = 1 /\ postErr = "nil")
    /\ (Len(posts) = 1 /\ postErr = "error") =>
          status = <<StatusInternalServerError>>
    /\ \A k \in 1..Len(posts) : SharedProcess(posts[k])

\* A batch without a process and with two spans was posted, the call
\* returned without error and the request was accepted.
C10_Witness ==
    /\ pc = "done"
    /\ batch.Process.nil
    /\ len(batch.Spans) = 2
    /\ postErr = "nil"
    /\ status = <<StatusAccepted>>
    /\ Len(posts) = 1
    /\ len(posts[1].Spans) = 2
    /\ posts[1].Spans.elems[2].Process = posts[1].Process
    /\ heap[posts[1].Process].ServiceName = ""

=============================================================================
